---- MODULE Spec2Model ----
(***************************************************************************)
(* Model of scenarious.Scenario (src/scenarious/scenario.py): the object   *)
(* store and id allocator, the definition tree walker, the re-entrant      *)
(* loader and the dynamic accessors.  The interpreter's call stack is the  *)
(* variable `stack'; one action is one step of the frame on top of it.     *)
(***************************************************************************)
EXTENDS Integers, Sequences, FiniteSets, TLC

(* ------------------------------ bounds --------------------------------- *)
\* largest count used as a type definition
MaxCount == 2
\* largest explicit id passed to the add accessor after the build
MaxId == 3
\* number of add calls after the build of a specification of StoreSpecs
MaxAdds == 2
\* depth of the interpreter's call stack (frames) before it gives up
MaxDepth == 7

(* ------------------------------ names ---------------------------------- *)
\* A name is a sequence of characters, so that stripping and pluralising
\* are computed and not assumed.
NA == <<"a">>
NB == <<"b">>
NC == <<"c">>
NAS == <<"a", "s">>
NBS == <<"b", "s">>
NoName == <<>>

\* Scenario.ID = 'id'; an absent id and None are the same to dict.pop(ID, None)
NoId == -1

RECURSIVE RStrip(_)
RStrip(name) ==
    IF name # <<>> /\ name[Len(name)] = "s"
    THEN RStrip(SubSeq(name, 1, Len(name) - 1))
    ELSE name

GetTypeName(name) == RStrip(name)

Plural(name) == Append(name, "s")

(* ------------------------------ values --------------------------------- *)
\* Values of a definition: scalars, reference tokens, lists and mappings.
Scalar(s) == [k |-> "scalar", s |-> s]
Ref(t, i, attrs) == [k |-> "ref", t |-> t, i |-> i, attrs |-> attrs]
List(items) == [k |-> "list", items |-> items]
Dict(items) == [k |-> "dict", items |-> items]
Item(key, val) == [key |-> key, val |-> val]
\* a string that is_reference accepts and parse rejects (invalid syntax)
BadRef == [k |-> "ref", t |-> NoName, i |-> NoId, attrs |-> <<>>]

\* self._ref_handler.parse(ref) returns
Parses(ref) == ref.t # NoName

\* a constructed object, as a value
Obj(uid) == [k |-> "obj", uid |-> uid]
\* the None returned by dict.get
None == [k |-> "none"]

\* an object definition: a mapping with its id entry kept apart, or a bare value
ObjDef(id, items) == [k |-> "dict", id |-> id, items |-> items]
BareDef(v) == [k |-> "bare", id |-> NoId, items |-> <<Item("", v)>>]

\* a type definition: a count, a list of object definitions, one mapping,
\* or anything else (here: a string)
IntDef(n) == [k |-> "int", n |-> n, items |-> <<>>]
ListDef(items) == [k |-> "list", n |-> 0, items |-> items]
DictDef(d) == [k |-> "dict", n |-> 0, items |-> <<d>>]
StrDef == [k |-> "str", n |-> 0, items |-> <<>>]

\* Python truth value of a type definition (the `type_def or ...' test)
Truthy(td) ==
    CASE td.k = "int" -> td.n # 0
      [] td.k = "list" -> td.items # <<>>
      [] td.k = "dict" -> td.items[1].id # NoId \/ td.items[1].items # <<>>
      [] OTHER -> TRUE

(* --------------------------- type handlers ----------------------------- *)
\* the type names that have a handler (type_handlers_by_name)
Handlers == {NA, NB, NC}

\* field names that the handlers report as special methods
MethodKeys == {"attach"}

IsMethod(key) == key \in MethodKeys

\* field names whose presence makes handler.create raise TypeHandlerException
RejectedKeys == {"bad"}

Rejects(args) == \E i \in 1..Len(args) : args[i].key \in RejectedKeys

HasHandler(name) == name \in Handlers \/ GetTypeName(name) \in Handlers

(* ------------------------ definition tree walker ----------------------- *)
\* The walker visits a definition in order; each visit that does something
\* is an event: a special method collected, or a reference to resolve.
\* A path is the sequence of positions leading to the visited value.
Concat(ss) ==
    LET RECURSIVE C(_)
        C(i) == IF i > Len(ss) THEN <<>> ELSE ss[i] \o C(i + 1)
    IN C(1)

RECURSIVE DictEvents(_, _)
RECURSIVE ElemEvents(_, _)
DictEvents(items, path) ==
    Concat([i \in 1..Len(items) |->
        LET key == items[i].key
            v == items[i].val
            p == Append(path, i)
        IN  IF IsMethod(key) THEN <<[ev |-> "method", path |-> p]>>
            ELSE IF v.k = "dict" THEN DictEvents(v.items, p)
            ELSE IF v.k = "list"
                 THEN Concat([j \in 1..Len(v.items) |->
                                 ElemEvents(v.items[j], Append(p, j))])
            ELSE IF v.k = "ref" THEN <<[ev |-> "resolve", path |-> p]>>
            ELSE <<>>])

ElemEvents(v, path) ==
    IF v.k = "dict" THEN DictEvents(v.items, path)
    ELSE IF v.k = "ref" THEN <<[ev |-> "resolve", path |-> path]>>
    ELSE <<>>

\* the entry (item of a mapping, or element of a list) at a path
ValOf(e) == IF "val" \in DOMAIN e THEN e.val ELSE e

RECURSIVE EntryAt(_, _)
EntryAt(items, path) ==
    IF Len(path) = 1 THEN items[path[1]]
    ELSE EntryAt(ValOf(items[path[1]]).items, Tail(path))

GetAt(items, path) == ValOf(EntryAt(items, path))

\* resolved_def[k] = value, at the place the walker has reached
RECURSIVE SetAt(_, _, _)
SetAt(items, path, x) ==
    LET e == items[path[1]]
        isItem == "val" \in DOMAIN e
        nv == IF Len(path) = 1 THEN x
              ELSE [k |-> ValOf(e).k, items |-> SetAt(ValOf(e).items, Tail(path), x)]
    IN  [items EXCEPT ![path[1]] = IF isItem THEN Item(e.key, nv) ELSE nv]

(* ------------------------- object store, ids --------------------------- *)
\* a collection is a map id -> object; EmptyMap is the fresh dict
EmptyMap == <<>>

Put(m, id, o) == (id :> o) @@ m

Remove(m, id) == [x \in DOMAIN m \ {id} |-> m[x]]

\* self._objects[t] on the defaultdict: reading it creates the collection
Touch(objs, t) == IF t \in DOMAIN objs THEN objs ELSE (t :> EmptyMap) @@ objs

RECURSIVE NextFree(_, _)
NextFree(m, n) == IF n \in DOMAIN m THEN NextFree(m, n + 1) ELSE n

\* _generate_id without the occupancy loop
GenerateIdNoProbe(m, c) == c

\* _generate_id that advances the counter before the first test
GenerateIdAfter(m, c) == NextFree(m, c + 1)

\* _generate_id: the counter's new value, which is the id returned
GenerateId(m, c) == NextFree(m, c)

\* _relocate_object: the collection after moving the occupant of obj_id
RelocateObject(m, c, obj_id) ==
    LET previous_e == m[obj_id]
        new_id == c + 1
    IN  Put(Remove(m, obj_id), new_id, previous_e)

\* _add_object: [m |-> collection, c |-> counter, at |-> o_ref]
AddObject(m, c, obj, ref_id) ==
    IF ref_id \in DOMAIN m
    THEN [m |-> Put(RelocateObject(m, c, ref_id), ref_id, obj), c |-> c,
          at |-> ref_id]
    ELSE IF ref_id = NoId \/ ref_id = 0
    THEN LET g == GenerateId(m, c)
         IN [m |-> Put(m, g, obj), c |-> g, at |-> g]
    ELSE [m |-> Put(m, ref_id, obj), c |-> c, at |-> ref_id]

(* ------------------------------ state ---------------------------------- *)
VARIABLES
    given,     \* history: the specification as the caller passed it
    raw,       \* self._raw_data: sequence of [key, def], in enumeration order
    prio,      \* load_priority
    objects,   \* self._objects: type name -> (id -> object)
    counter,   \* self._objects_id_counter
    stack,     \* the call stack of _load_type_definition / _load_type frames
    status,    \* "building", "ready" (constructor returned) or "failed"
    mainIdx,   \* position of __init__ in its two loops
    budget,    \* add calls the caller still makes after the build
    made,      \* history: every object a handler created, by uid
    resolved,  \* history: every reference _resolve_reference returned
    err,       \* history: the last exception that reached the caller
    call       \* history: the last call made on the built scenario

vars == <<given, raw, prio, objects, counter, stack, status, mainIdx, budget, made,
          resolved, err, call>>

\* every name used as a type name somewhere
AllNames == {NA, NB, NC, NAS, NBS}

HasKey(key) == \E i \in 1..Len(raw) : raw[i].key = key

RawIdx(key) == CHOOSE i \in 1..Len(raw) : raw[i].key = key

RawGet(key) == raw[RawIdx(key)].def

Top == stack[Len(stack)]

Below == SubSeq(stack, 1, Len(stack) - 1)

NoFrame == [fn |-> "none"]

LtdFrame(type, key, kind, n) ==
    [fn |-> "ltd", via |-> "load", type |-> type, key |-> key, kind |-> kind,
     idx |-> 1, n |-> n, pc |-> "iter", data |-> ObjDef(NoId, <<>>),
     refid |-> NoId, items |-> <<>>, evs |-> <<>>, ep |-> 1, called |-> FALSE,
     lazy |-> FALSE, special |-> <<>>, collected |-> <<>>, shared |-> FALSE,
     sp |-> 1, uid |-> 0]

\* a call of _load_type (via = "load") or of _create_obj through the add
\* accessor (via = "add"); key, idx: the element of raw that is being loaded;
\* kind: the shape of the type definition the element comes from;
\* special: the special_methods list of _load_type; collected: the list the
\* walker appends to; shared: they are one and the same list
LoadFrame(via, type, key, kind, idx, data) ==
    [fn |-> "load", via |-> via, type |-> type, key |-> key, kind |-> kind,
     idx |-> idx, n |-> 0, pc |-> "start", data |-> data,
     refid |-> NoId, items |-> <<>>, evs |-> <<>>, ep |-> 1, called |-> FALSE,
     lazy |-> FALSE, special |-> <<>>, collected |-> <<>>, shared |-> FALSE,
     sp |-> 1, uid |-> 0]

(* ----------------------------- exceptions ------------------------------ *)
Categorized == {"TypeHandlerException", "ScenariousException", "ReferenceException"}

\* except clauses that wrap every exception in the generic one
ReraiseGeneric(kind) == "ScenariousException"

\* the except clauses of _load_type, for one frame: the class that leaves
Reraise(kind) == IF kind \in Categorized THEN kind ELSE "ScenariousException"

\* the types of the _load_type frames an exception passes, innermost first
RECURSIVE Catchers(_)
Catchers(stk) ==
    IF stk = <<>> THEN <<>>
    ELSE LET f == stk[Len(stk)]
             rest == Catchers(SubSeq(stk, 1, Len(stk) - 1))
         IN  IF f.fn = "load" /\ f.via = "load" THEN <<f.type>> \o rest ELSE rest

\* the except clauses of _load_type(type_name, ...), applied to an exception
\* that leaves its try block; types: the type names in the message, in the
\* order the message gives them
Handle(type_name, e) ==
    [kind |-> Reraise(e.kind), raised |-> e.raised,
     types |-> IF e.kind \in {"TypeHandlerException", "ScenariousException"}
               THEN e.types
               ELSE <<type_name>> \o e.types]

\* the exception on its way out of the frames of a stack, innermost first
RECURSIVE Unwind(_, _)
Unwind(e, stk) ==
    IF stk = <<>> THEN e
    ELSE LET f == stk[Len(stk)]
             rest == SubSeq(stk, 1, Len(stk) - 1)
         IN  Unwind(IF f.fn = "load" /\ f.via = "load" THEN Handle(f.type, e) ELSE e,
                    rest)

\* what the caller of the build, of the add accessor or of by_id sees
Propagate(kind, stk) ==
    Unwind([kind |-> kind, raised |-> kind, types |-> <<>>], stk)

NoErr == [kind |-> "", raised |-> "", types |-> <<>>]

\* the exception unwinds the whole stack
Fail(kind) ==
    /\ err' = Propagate(kind, stack)
    /\ stack' = <<>>
    /\ status' = IF status = "building" THEN "failed" ELSE status

(* ------------------------ _load_type_definition ------------------------ *)
\* The entry of _load_type_definition(type_name, type_def): what the call
\* does before its loop.  hasDef: the caller passed type_def.
LtdEntry(type, hasDef, type_def, key) ==
    LET useArg == hasDef /\ Truthy(type_def)
    IN  IF ~useArg /\ ~HasKey(Plural(type))
        THEN [res |-> "raise", kind |-> "KeyError", frame |-> NoFrame]
        ELSE LET k == IF useArg THEN key
                      ELSE IF HasKey(type) THEN type ELSE Plural(type)
                 td == RawGet(k)
             IN  IF type \in DOMAIN objects
                 THEN [res |-> "skip", kind |-> "", frame |-> NoFrame]
                 ELSE IF td.k = "list"
                 THEN [res |-> "push", kind |-> "",
                       frame |-> LtdFrame(type, k, "list", Len(td.items))]
                 ELSE IF td.k = "dict"
                 THEN [res |-> "push", kind |-> "",
                       frame |-> LtdFrame(type, k, "dict", 1)]
                 ELSE IF td.k = "int"
                 THEN [res |-> "push", kind |-> "",
                       frame |-> LtdFrame(type, k, "int", td.n)]
                 ELSE [res |-> "raise", kind |-> "ScenariousException",
                       frame |-> NoFrame]

\* the interpreter refuses a call when the stack is full
Call(base, frame) ==
    IF Len(base) >= MaxDepth
    THEN /\ err' = Propagate("RuntimeError", base)
         /\ stack' = <<>>
         /\ status' = IF status = "building" THEN "failed" ELSE status
    ELSE /\ stack' = Append(base, frame)
         /\ UNCHANGED <<err, status>>

(* ------------------------------- __init__ ------------------------------ *)
\* the first loop: for _type in load_priority
LoadPriority ==
    /\ status = "building" /\ stack = <<>>
    /\ mainIdx <= Len(prio)
    /\ LET e == LtdEntry(GetTypeName(prio[mainIdx]), FALSE, IntDef(0), NoName)
       IN  IF e.res = "raise" THEN Fail(e.kind)
           ELSE IF e.res = "push" THEN Call(<<>>, e.frame)
           ELSE UNCHANGED <<stack, err, status>>
    /\ mainIdx' = mainIdx + 1
    /\ UNCHANGED <<given, call, raw, prio, objects, counter, budget, made, resolved>>

\* a membership test that finds nothing in the priority list
InPrioNever(key) == FALSE

\* _type in load_priority
InPrio(key) == \E i \in 1..Len(prio) : prio[i] = key

\* the second loop: for _type, type_def in self._raw_data.iteritems()
LoadDeclared ==
    /\ status = "building" /\ stack = <<>>
    /\ mainIdx > Len(prio) /\ mainIdx <= Len(prio) + Len(raw)
    /\ LET d == raw[mainIdx - Len(prio)]
           e == LtdEntry(GetTypeName(d.key), TRUE, d.def, d.key)
       IN  IF InPrio(d.key) THEN UNCHANGED <<stack, err, status>>
           ELSE IF e.res = "raise" THEN Fail(e.kind)
           ELSE IF e.res = "push" THEN Call(<<>>, e.frame)
           ELSE UNCHANGED <<stack, err, status>>
    /\ mainIdx' = mainIdx + 1
    /\ UNCHANGED <<given, call, raw, prio, objects, counter, budget, made, resolved>>

\* the constructor returns
BuildDone ==
    /\ status = "building" /\ stack = <<>>
    /\ mainIdx > Len(prio) + Len(raw)
    /\ status' = "ready"
    /\ UNCHANGED <<given, call, raw, prio, objects, counter, stack, mainIdx, budget, made,
                   resolved, err>>

(* -------------------- _load_type_definition, its loop ------------------ *)
\* one iteration: self._load_type(type_name, data)
LtdStep ==
    /\ stack # <<>> /\ Top.fn = "ltd" /\ Top.idx <= Top.n
    /\ LET f == Top
           next == [f EXCEPT !.idx = f.idx + 1]
           callee == LoadFrame("load", f.type, f.key, f.kind, f.idx, ObjDef(NoId, <<>>))
       IN  Call(Append(Below, next), callee)
    /\ UNCHANGED <<given, call, raw, prio, objects, counter, mainIdx, budget, made, resolved>>

LtdReturn ==
    /\ stack # <<>> /\ Top.fn = "ltd" /\ Top.idx > Top.n
    /\ stack' = Below
    /\ UNCHANGED <<given, call, raw, prio, objects, counter, status, mainIdx, budget, made,
                   resolved, err>>

(* ------------------------------ _create_obj ---------------------------- *)
\* the data dict of a frame: an element of raw, or a dict of its own (the {}
\* of a count, the argument of the add accessor)
InRaw(f) == f.via = "load" /\ f.kind # "int"

DataOf(f) == IF InRaw(f) THEN RawGet(f.key).items[f.idx] ELSE f.data

\* data.pop(self.ID, None) on an element of raw
PopId(r, key, idx) ==
    [i \in 1..Len(r) |->
        IF r[i].key = key
        THEN [r[i] EXCEPT !.def.items[idx].id = NoId]
        ELSE r[i]]

\* `special_methods or []' in _create_obj: the caller's list is passed on to
\* the walker only if it is not empty; otherwise the walker gets a new list
SameList(special_methods) == special_methods # <<>>

\* a _create_obj that generates the id of an object without one before it
\* walks the definition
CreateStartReserving ==
    /\ stack # <<>> /\ Top.fn = "load" /\ Top.pc = "start"
    /\ LET f == Top
           data == DataOf(f)
           m == IF f.type \in DOMAIN objects THEN objects[f.type] ELSE EmptyMap
       IN  IF ~HasHandler(f.type)
           THEN Fail("ScenariousException") /\ UNCHANGED <<raw, counter>>
           ELSE IF data.k # "dict"
           THEN Fail("AttributeError") /\ UNCHANGED <<raw, counter>>
           ELSE /\ raw' = IF InRaw(f) THEN PopId(raw, f.key, f.idx) ELSE raw
                /\ counter' = IF data.id = NoId
                              THEN [counter EXCEPT ![f.type] = GenerateId(m, @)]
                              ELSE counter
                /\ stack' = Append(Below,
                       [f EXCEPT !.pc = "walk", !.refid = data.id,
                                 !.items = data.items,
                                 !.collected = f.special,
                                 !.shared = f.via = "load" /\ SameList(f.special),
                                 !.evs = DictEvents(data.items, <<>>)])
                /\ UNCHANGED <<err, status>>
    /\ UNCHANGED <<given, call, prio, objects, mainIdx, budget, made, resolved>>

\* handler lookup, data.pop(ID) and the start of the walk
CreateStart ==
    /\ stack # <<>> /\ Top.fn = "load" /\ Top.pc = "start"
    /\ LET f == Top
           data == DataOf(f)
       IN  IF ~HasHandler(f.type)
           THEN Fail("ScenariousException") /\ UNCHANGED raw
           ELSE IF data.k # "dict"
           THEN Fail("AttributeError") /\ UNCHANGED raw
           ELSE /\ raw' = IF InRaw(f) THEN PopId(raw, f.key, f.idx) ELSE raw
                /\ stack' = Append(Below,
                       [f EXCEPT !.pc = "walk", !.refid = data.id,
                                 !.items = data.items,
                                 !.collected = f.special,
                                 !.shared = f.via = "load" /\ SameList(f.special),
                                 !.evs = DictEvents(data.items, <<>>)])
                /\ UNCHANGED <<err, status>>
    /\ UNCHANGED <<given, call, prio, objects, counter, mainIdx, budget, made, resolved>>

\* special_methods.append((handler.get_special_method(k), v))
CollectMethod ==
    /\ stack # <<>> /\ Top.fn = "load" /\ Top.pc = "walk"
    /\ Top.ep <= Len(Top.evs) /\ Top.evs[Top.ep].ev = "method"
    /\ LET f == Top
           e == EntryAt(f.items, f.evs[f.ep].path)
       IN  stack' = Append(Below,
               [f EXCEPT !.collected = Append(f.collected, e),
                         !.special = IF f.shared THEN Append(f.special, e)
                                     ELSE f.special,
                         !.ep = f.ep + 1])
    /\ UNCHANGED <<given, call, raw, prio, objects, counter, status, mainIdx, budget, made,
                   resolved, err>>

(* -------------------------- _resolve_reference ------------------------- *)
\* the frame on top is about to resolve a reference: in the walk, or as the
\* parameter of a special method
Resolving(f) ==
    /\ f.fn = "load"
    /\ \/ f.pc = "walk" /\ f.ep <= Len(f.evs) /\ f.evs[f.ep].ev = "resolve"
       \/ f.pc = "replay" /\ f.sp <= Len(f.special)
            /\ f.special[f.sp].val.k = "ref"

CurRef(f) ==
    IF f.pc = "walk" THEN GetAt(f.items, f.evs[f.ep].path)
    ELSE f.special[f.sp].val

\* getattr(obj, attr): an object exposes the fields it was constructed with
HasAttr(mk, v, attr) ==
    /\ v.k = "obj"
    /\ \E i \in 1..Len(mk[v.uid].args) : mk[v.uid].args[i].key = attr

AttrOf(mk, v, attr) ==
    LET args == mk[v.uid].args
    IN  args[CHOOSE i \in 1..Len(args) : args[i].key = attr].val

\* for attr in ref_attrs: value = getattr(value, attr)
RECURSIVE Chase(_, _, _)
Chase(mk, v, attrs) ==
    IF attrs = <<>> THEN [ok |-> TRUE, val |-> v]
    ELSE IF HasAttr(mk, v, attrs[1])
    THEN Chase(mk, AttrOf(mk, v, attrs[1]), Tail(attrs))
    ELSE [ok |-> FALSE, val |-> None]

\* ref_key_type, ref_key_id, ref_attrs = self._ref_handler.parse(ref), for a
\* token the reference handler rejects
ParseFails ==
    /\ stack # <<>> /\ Resolving(Top) /\ ~Parses(CurRef(Top))
    /\ Fail("ReferenceException")
    /\ UNCHANGED <<given, call, raw, prio, objects, counter, mainIdx, budget, made,
                   resolved>>

\* if ref_key_type not in self._objects: self._load_type_definition(ref_key_type)
ResolveLoad ==
    /\ stack # <<>> /\ Resolving(Top) /\ ~Top.called /\ Parses(CurRef(Top))
    /\ CurRef(Top).t \notin DOMAIN objects
    /\ LET f == Top
           e == LtdEntry(CurRef(f).t, FALSE, IntDef(0), NoName)
           base == Append(Below, [f EXCEPT !.called = TRUE, !.lazy = TRUE])
       IN  IF e.res = "raise" THEN Fail(e.kind)
           ELSE Call(base, e.frame)
    /\ UNCHANGED <<given, call, raw, prio, objects, counter, mainIdx, budget, made, resolved>>

\* method(*params): the call is recorded on the object
Invoke(mk, uid, key, params) ==
    [mk EXCEPT ![uid].calls = Append(@, [key |-> key, params |-> params])]

\* value = self._objects[ref_key_type][ref_key_id], then the attribute
\* chain: the value, or the exception of the missing id or attribute
Lookup(objs, mk, t, i, attrs) ==
    IF t \notin DOMAIN objs \/ i \notin DOMAIN objs[t]
    THEN [ok |-> FALSE, kind |-> "KeyError", val |-> None]
    ELSE LET r == Chase(mk, Obj(objs[t][i]), attrs)
         IN  IF r.ok THEN [ok |-> TRUE, kind |-> "", val |-> r.val]
             ELSE [ok |-> FALSE, kind |-> "AttributeError", val |-> None]

\* the rest of _resolve_reference, after the lazy load
ResolveLookup ==
    /\ stack # <<>> /\ Resolving(Top) /\ Parses(CurRef(Top))
    /\ Top.called \/ CurRef(Top).t \in DOMAIN objects
    /\ LET f == Top
           ref == CurRef(f)
           r == Lookup(objects, made, ref.t, ref.i, ref.attrs)
       IN  /\ objects' = Touch(objects, ref.t)
           /\ IF ~r.ok THEN Fail(r.kind) /\ UNCHANGED <<made, resolved>>
              ELSE /\ resolved' = Append(resolved,
                          [ref |-> ref, by |-> f.type, lazy |-> f.lazy,
                           val |-> r.val, n |-> Len(made), mi |-> mainIdx])
                   /\ IF f.pc = "walk"
                      THEN /\ stack' = Append(Below,
                                  [f EXCEPT !.items = SetAt(f.items, f.evs[f.ep].path, r.val),
                                            !.ep = f.ep + 1, !.called = FALSE,
                                            !.lazy = FALSE])
                           /\ made' = made
                      ELSE /\ stack' = Append(Below,
                                  [f EXCEPT !.sp = f.sp + 1, !.called = FALSE,
                                            !.lazy = FALSE])
                           /\ made' = Invoke(made, f.uid, f.special[f.sp].key,
                                             <<r.val>>)
                   /\ UNCHANGED <<err, status>>
    /\ UNCHANGED <<given, call, raw, prio, counter, mainIdx, budget>>

\* handler.create(**new_obj_def): the new object, as recorded in made
Create(f, at) ==
    [type |-> f.type, key |-> f.key, idx |-> f.idx, via |-> f.via,
     def |-> DataOf(f).items, args |-> f.items, refid |-> f.refid, at |-> at, calls |-> <<>>,
     mi |-> mainIdx]

\* new_obj = handler.create(**new_obj_def); self._add_object(...); return
CreateAndAdd ==
    /\ stack # <<>> /\ Top.fn = "load" /\ Top.pc = "walk"
    /\ Top.ep > Len(Top.evs)
    /\ LET f == Top
           uid == Len(made) + 1
           objs == Touch(objects, f.type)
           r == AddObject(objs[f.type], counter[f.type], uid, f.refid)
       IN  IF Rejects(f.items)
           THEN /\ Fail("TypeHandlerException")
                /\ UNCHANGED <<made, objects, counter>>
           ELSE /\ made' = Append(made, Create(f, r.at))
                /\ objects' = [objs EXCEPT ![f.type] = r.m]
                /\ counter' = [counter EXCEPT ![f.type] = r.c]
                /\ stack' = IF f.via = "load"
                            THEN Append(Below, [f EXCEPT !.pc = "replay", !.uid = uid])
                            ELSE Below
                /\ UNCHANGED <<status, err>>
    /\ UNCHANGED <<given, call, raw, prio, mainIdx, budget, resolved>>

(* ------------------------------ _load_type ----------------------------- *)
\* the parameters of a special method whose param is not a string
Params(v) == IF v.k = "list" THEN v.items ELSE <<v>>

\* the loop over special_methods, for a param that is not a reference, and
\* the return of _load_type when the loop is over
ReplayStep ==
    /\ stack # <<>> /\ Top.fn = "load" /\ Top.pc = "replay"
    /\ ~Resolving(Top)
    /\ LET f == Top
       IN  IF f.sp <= Len(f.special)
           THEN /\ made' = Invoke(made, f.uid, f.special[f.sp].key,
                                  Params(f.special[f.sp].val))
                /\ stack' = Append(Below, [f EXCEPT !.sp = f.sp + 1])
           ELSE /\ made' = made
                /\ stack' = Below
    /\ UNCHANGED <<given, call, raw, prio, objects, counter, status, mainIdx, budget,
                   resolved, err>>

(* --------------------------- __getattr__, by_id ------------------------ *)
\* scenario.add_<name>(data): the accessor checks the stripped name, then
\* _create_obj runs with the name as given and no special_methods list
AddCall(name, data) ==
    /\ status = "ready" /\ stack = <<>> /\ budget > 0
    /\ budget' = budget - 1
    /\ IF GetTypeName(name) \in DOMAIN objects
       THEN /\ stack' = <<LoadFrame("add", name, NoName, "dict", 0, data)>>
            /\ err' = NoErr
       ELSE /\ err' = Propagate("ScenariousException", <<>>)
            /\ stack' = <<>>
    /\ call' = [op |-> "add", name |-> name, id |-> data.id, objs |-> objects,
                ctr |-> counter, n |-> Len(made),
                out |-> [ok |-> TRUE, val |-> None]]
    /\ UNCHANGED <<given, raw, prio, objects, counter, status, mainIdx, made, resolved>>

\* scenario.<name>: the objects of the collection, or AttributeError
Collection(name) ==
    LET type_name == GetTypeName(name)
    IN  IF type_name \in DOMAIN objects
        THEN [ok |-> TRUE, objs |-> {objects[type_name][i] : i \in DOMAIN objects[type_name]}]
        ELSE [ok |-> FALSE, objs |-> {}]

\* by_id without the test that the type has a collection
ByIdUnguarded(name, ref_id) ==
    LET type_name == GetTypeName(name)
    IN  IF type_name \in DOMAIN objects /\ ref_id \in DOMAIN objects[type_name]
        THEN [ok |-> TRUE, val |-> Obj(objects[type_name][ref_id])]
        ELSE [ok |-> TRUE, val |-> None]

\* by_id(type_name, ref_id): KeyError, None, or the object
ById(name, ref_id) ==
    LET type_name == GetTypeName(name)
    IN  IF type_name \notin DOMAIN objects
        THEN [ok |-> FALSE, val |-> None]
        ELSE IF ref_id \in DOMAIN objects[type_name]
        THEN [ok |-> TRUE, val |-> Obj(objects[type_name][ref_id])]
        ELSE [ok |-> TRUE, val |-> None]

\* scenario.by_id(name, ref_id), called on the built scenario: the result,
\* and the read of self._objects[type_name] when the call does not raise
ByIdCall(name, ref_id) ==
    /\ status = "ready" /\ stack = <<>> /\ budget > 0
    /\ budget' = budget - 1
    /\ LET r == ById(name, ref_id)
       IN  /\ objects' = IF r.ok THEN Touch(objects, GetTypeName(name)) ELSE objects
           /\ call' = [op |-> "by_id", name |-> name, id |-> ref_id,
                       objs |-> objects, ctr |-> counter, n |-> Len(made),
                       out |-> r]
           /\ err' = IF r.ok THEN NoErr ELSE Propagate("KeyError", <<>>)
    /\ UNCHANGED <<given, raw, prio, counter, stack, status, mainIdx, made, resolved>>

(* ------------------------- the specifications built -------------------- *)
X == Scalar("x")

Plain == ObjDef(NoId, <<Item("name", X)>>)

WithId(id) == ObjDef(id, <<Item("name", X)>>)

\* object lists of a type S, whose references go to S itself or to O
ObjLists(S, O) ==
    { <<Plain>>,
      <<Plain, WithId(1)>>,
      <<WithId(2), WithId(1), WithId(1)>>,
      <<WithId(0)>>,
      <<ObjDef(NoId, <<Item("ref", Ref(O, 1, <<"name">>))>>)>>,
      <<Plain, ObjDef(NoId, <<Item("name", X), Item("ref", Ref(O, 1, <<>>))>>)>>,
      <<WithId(1), ObjDef(NoId, <<Item("ref", Ref(O, 1, <<"name">>))>>)>>,
      <<ObjDef(NoId, <<Item("ref", Ref(S, 1, <<>>))>>)>>,
      <<Plain, ObjDef(NoId, <<Item("ref", Ref(S, 1, <<"name">>))>>)>>,
      <<ObjDef(NoId, <<Item("attach", Ref(O, 1, <<>>)), Item("name", X)>>)>>,
      <<ObjDef(NoId, <<Item("name", X), Item("attach", Ref(S, 1, <<"name">>))>>)>>,
      <<ObjDef(NoId, <<Item("attach", List(<<Ref(O, 1, <<>>), X>>))>>)>>,
      <<ObjDef(1, <<Item("name", X), Item("tags", List(<<Ref(O, 2, <<>>), X>>))>>)>>,
      <<ObjDef(NoId, <<Item("meta", Dict(<<Item("attach", X),
                                           Item("ref", Ref(O, 1, <<"name">>))>>))>>)>>,
      <<BareDef(Ref(O, 1, <<>>))>>,
      <<ObjDef(NoId, <<Item("ref", BadRef)>>)>>,
      <<ObjDef(NoId, <<Item("name", X), Item("bad", X)>>)>> }

TypeDefs(S, O) ==
    {IntDef(n) : n \in 0..MaxCount}
    \cup {ListDef(<<>>), DictDef(Plain), DictDef(WithId(2)), StrDef}
    \cup {ListDef(l) : l \in ObjLists(S, O)}

\* two types under plural keys, every pairing of their definitions
TwoTypeSpecs ==
    { <<[key |-> NAS, def |-> da], [key |-> NBS, def |-> db]>> :
        da \in TypeDefs(NA, NB), db \in TypeDefs(NB, NA) }

\* a third type under a singular key, before or after the type that refers to it
SingularSpecs ==
    LET a == [key |-> NAS, def |-> ListDef(<<ObjDef(NoId, <<Item("ref", Ref(NC, 1, <<>>))>>)>>)]
    IN  UNION { { <<a, [key |-> NC, def |-> dc]>>, <<[key |-> NC, def |-> dc], a>> } :
                 dc \in {IntDef(1), IntDef(0), ListDef(<<Plain>>)} }

\* the specifications whose store is exercised by several add calls
StoreSpecs ==
    { <<[key |-> NAS, def |-> da]>> :
        da \in {IntDef(1), IntDef(0), ListDef(<<WithId(2)>>), ListDef(<<WithId(1)>>)} }

Priorities == {<<>>, <<NBS>>, <<NB>>}

\* the data of an add call
AddData ==
    { ObjDef(id, items) :
        id \in {NoId} \cup 0..MaxId,
        items \in { <<Item("name", X)>>,
                    <<Item("attach", X), Item("name", X)>>,
                    <<Item("ref", Ref(NB, 1, <<>>))>>,
                    <<Item("bad", X)>> } }

AddNames == {NA, NAS, NB}

\* the arguments of a by_id call
QueryNames == {NA, NBS, NC}

QueryIds == {1, 2}

NoCall == [op |-> "none", name |-> NoName, id |-> NoId, objs |-> <<>>,
           ctr |-> <<>>, n |-> 0, out |-> [ok |-> TRUE, val |-> None]]

Init ==
    /\ \/ raw \in TwoTypeSpecs /\ prio \in Priorities /\ budget = 1
       \/ raw \in SingularSpecs /\ prio \in {<<>>, <<NC>>} /\ budget = 1
       \/ raw \in StoreSpecs /\ prio = <<>> /\ budget = MaxAdds
    /\ given = raw
    /\ objects = <<>>
    /\ counter = [t \in AllNames |-> 1]
    /\ stack = <<>>
    /\ status = "building"
    /\ mainIdx = 1
    /\ made = <<>>
    /\ resolved = <<>>
    /\ err = NoErr
    /\ call = NoCall

Query == \E name \in QueryNames, ref_id \in QueryIds : ByIdCall(name, ref_id)

Add == \E name \in AddNames, data \in AddData : AddCall(name, data)

Next ==
    \/ LoadPriority
    \/ LoadDeclared
    \/ BuildDone
    \/ LtdStep
    \/ LtdReturn
    \/ CreateStart
    \/ CollectMethod
    \/ ParseFails
    \/ ResolveLoad
    \/ ResolveLookup
    \/ CreateAndAdd
    \/ ReplayStep
    \/ Add
    \/ Query

Spec == Init /\ [][Next]_vars

(* ------------------------------- claims -------------------------------- *)
\* the ids under which an object is stored in the collection of its type
IdsOf(uid) ==
    LET t == made[uid].type
    IN  IF t \in DOMAIN objects
        THEN {i \in DOMAIN objects[t] : objects[t][i] = uid}
        ELSE {}

\* the step is a call of _add_object (the object created by this step is the
\* last of made')
AddStep == Len(made') = Len(made) + 1

\* the collection of a type before a step, an absent one being empty
Coll(t) == IF t \in DOMAIN objects THEN objects[t] ELSE EmptyMap

\* C1: every object that was added is stored under exactly one id of its
\* type: no add loses or overwrites an object added before.
C1_NoObjectLost ==
    \A uid \in 1..Len(made) : Cardinality(IdsOf(uid)) = 1

\* C2: an add with an explicit id X stores the new object under X, and an
\* object that occupied X before is afterwards stored under another id.
C2_ExplicitIdWins ==
    [][AddStep =>
        LET uid == Len(made')
            t == made'[uid].type
            x == made'[uid].refid
        IN  x # NoId =>
              /\ x \in DOMAIN objects'[t] /\ objects'[t][x] = uid
              /\ x \in DOMAIN Coll(t) =>
                    \E j \in DOMAIN objects'[t] :
                        j # x /\ objects'[t][j] = Coll(t)[x]]_vars

\* C3: during the build each declared object definition (an element of the
\* specification, or one of the N objects of a count) is constructed at most
\* once.
C3_LoadedOnce ==
    \A u1, u2 \in 1..Len(made) :
        (/\ made[u1].via = "load" /\ made[u2].via = "load"
         /\ made[u1].key = made[u2].key /\ made[u1].idx = made[u2].idx)
        => u1 = u2

\* C4: the chain of nested loads never holds two _load_type_definition calls
\* of the same type, and the build never runs out of stack.
C4_NoRevisit ==
    /\ \A i, j \in 1..Len(stack) :
          (stack[i].fn = "ltd" /\ stack[j].fn = "ltd"
           /\ stack[i].type = stack[j].type) => i = j
    /\ err.raised # "RuntimeError"

\* C5: an add without an id stores the object under the smallest id that is
\* at least the type's counter and unoccupied, the counter becomes that id,
\* and every object stored before stays where it was.
C5_GeneratedIdFree ==
    [][AddStep =>
        LET uid == Len(made')
            t == made'[uid].type
            m == Coll(t)
            c == counter[t]
        IN  made'[uid].refid = NoId =>
              \E g \in DOMAIN objects'[t] :
                  /\ objects'[t][g] = uid
                  /\ g >= c /\ g \notin DOMAIN m
                  /\ \A n \in c..(g - 1) : n \in DOMAIN m
                  /\ counter'[t] = g
                  /\ \A i \in DOMAIN m : i \in DOMAIN objects'[t]
                                          /\ objects'[t][i] = m[i]]_vars

\* an add without an id went past an occupied slot: an object with the
\* explicit id 1 holds slot 1 and a later object got the generated id 2
C5_Witness ==
    \E u, v \in 1..Len(made) :
        /\ v < u /\ made[v].type = made[u].type
        /\ made[v].refid = 1 /\ IdsOf(v) = {1}
        /\ made[u].refid = NoId /\ IdsOf(u) = {2}

\* C6: no key that the handler reports as a special method is among the
\* arguments the handler's create received.
C6_MethodsNotPassed ==
    \A uid \in 1..Len(made) :
        \A i \in 1..Len(made[uid].args) : ~IsMethod(made[uid].args[i].key)

\* C7: once an add call has returned, every special method field of the data
\* it was given has been applied to the object it added.
C7_AddReplays ==
    \A uid \in 1..Len(made) :
        (made[uid].via = "add" /\ stack = <<>>) =>
            \A i \in 1..Len(made[uid].def) :
                IsMethod(made[uid].def[i].key) =>
                    \E j \in 1..Len(made[uid].calls) :
                        made[uid].calls[j].key = made[uid].def[i].key

\* C8: after a completed build the collection of every declared type can be
\* read (and so added to).
C8_DeclaredReadable ==
    status = "ready" =>
        \A i \in 1..Len(given) : Collection(given[i].key).ok

\* C9: after a completed build, and before any add call, a type declared as
\* the count N holds exactly N objects, under the ids 1..N, each constructed
\* from an empty definition.
C9_CountLoadsN ==
    (status = "ready" /\ \A u \in 1..Len(made) : made[u].via = "load") =>
        \A i \in 1..Len(given) :
            given[i].def.k = "int" =>
                LET m == Coll(GetTypeName(given[i].key))
                    n == given[i].def.n
                IN  /\ DOMAIN m = 1..n
                    /\ \A a, b \in 1..n : m[a] = m[b] => a = b
                    /\ \A a \in 1..n : /\ made[m[a]].key = given[i].key
                                       /\ made[m[a]].def = <<>>
                                       /\ made[m[a]].args = <<>>

\* a completed build of a specification with a count of at least 2
C9_Witness ==
    /\ status = "ready" /\ \A u \in 1..Len(made) : made[u].via = "load"
    /\ \E i \in 1..Len(given) :
          /\ given[i].def.k = "int" /\ given[i].def.n >= 2
          /\ DOMAIN Coll(GetTypeName(given[i].key)) = 1..given[i].def.n

\* the declaration of type t in the given specification, and the elements of
\* it that declare the id i: those with the explicit id i, or the i-th
\* element when no element has an explicit id
DeclsOf(t) == {j \in 1..Len(given) : GetTypeName(given[j].key) = t}

NumDefs(td) == IF td.k = "int" THEN td.n ELSE Len(td.items)

Declaring(td, i) ==
    IF td.k = "int" THEN {i} \cap (1..td.n)
    ELSE IF td.k \in {"list", "dict"}
    THEN IF \A j \in 1..Len(td.items) : td.items[j].id = NoId
         THEN {i} \cap (1..Len(td.items))
         ELSE {j \in 1..Len(td.items) : td.items[j].id = i}
    ELSE {}

Declared(ref) ==
    \E d \in DeclsOf(ref.t) : Declaring(given[d].def, ref.i) # {}

\* C10: a reference to a declared object of a type that is not loaded yet
\* starts the load of that type; when the reference has been resolved, every
\* element of the type's definition has been constructed, the value is the
\* attribute value of an object constructed from an element declaring that id,
\* and no later iteration of the main loop constructs an object of the type.
C10_LazyTransparent ==
    /\ (/\ stack # <<>> /\ Resolving(Top) /\ ~Top.called
        /\ CurRef(Top).t \notin DOMAIN objects /\ Declared(CurRef(Top)))
       => LtdEntry(CurRef(Top).t, FALSE, IntDef(0), NoName).res = "push"
    /\ \A x \in 1..Len(resolved) :
          LET r == resolved[x]
          IN  (r.lazy /\ Declared(r.ref)) =>
                \A d \in DeclsOf(r.ref.t) :
                    LET td == given[d].def
                        k == given[d].key
                    IN  /\ \A j \in 1..NumDefs(td) :
                              \E u \in 1..r.n : made[u].key = k /\ made[u].idx = j
                        /\ \E u \in 1..r.n :
                              /\ made[u].key = k
                              /\ made[u].idx \in Declaring(td, r.ref.i)
                              /\ Chase(made, Obj(u), r.ref.attrs)
                                    = [ok |-> TRUE, val |-> r.val]
                        /\ \A u \in 1..Len(made) :
                              (made[u].key = k /\ made[u].via = "load")
                                 => made[u].mi <= r.mi

\* the type the constructor's loops turn to at position i: first the
\* priority list, then the specification in its enumeration order
MainType(i) ==
    IF i <= Len(prio) THEN GetTypeName(prio[i])
    ELSE GetTypeName(raw[i - Len(prio)].key)

\* one iteration of one of the two loops of the constructor
MainStep == status = "building" /\ stack = <<>> /\ mainIdx' = mainIdx + 1

\* every element of the declaration of the i-th priority type was constructed
\* while the priority loop ran
PrioLoaded(i) ==
    \A d \in DeclsOf(GetTypeName(prio[i])) :
        \A j \in 1..NumDefs(given[d].def) :
            \E u \in 1..Len(made) :
                /\ made[u].key = given[d].key /\ made[u].idx = j
                /\ made[u].mi <= Len(prio) + 1

MethodEvents(def) ==
    SelectSeq(DictEvents(def, <<>>), LAMBDA e : e.ev = "method")

\* the _load_type call that constructed the object has returned
Returned(uid) ==
    /\ made[uid].via = "load" /\ status # "failed"
    /\ \A i \in 1..Len(stack) : ~(stack[i].fn = "load" /\ stack[i].uid = uid)

\* C12: when the _load_type call of an object has returned, every special
\* method field of its definition has been invoked on the stored object, in
\* the order the fields were collected, and no parameter of an invocation is
\* a reference token that was left unresolved.
C12_ReplayedInOrder ==
    \A uid \in 1..Len(made) :
        Returned(uid) =>
            LET evs == MethodEvents(made[uid].def)
                calls == made[uid].calls
            IN  /\ IdsOf(uid) # {}
                /\ Len(calls) = Len(evs)
                /\ \A n \in 1..Len(evs) :
                      /\ calls[n].key = EntryAt(made[uid].def, evs[n].path).key
                      /\ \A p \in 1..Len(calls[n].params) :
                            calls[n].params[p].k # "ref"

\* the step is the lookup of _resolve_reference and it finds no object under
\* the id, or no attribute of that name
LookupFails ==
    /\ stack # <<>> /\ Resolving(Top)
    /\ Top.called \/ CurRef(Top).t \in DOMAIN objects
    /\ ~Lookup(objects, made, CurRef(Top).t, CurRef(Top).i, CurRef(Top).attrs).ok

\* C13: a reference to an id that is not stored, or through an attribute
\* that is missing, ends the load with a ReferenceException that names the
\* type being loaded, and the reference yields no value.
C13_ReferenceFailure ==
    [][(LookupFails /\ Top.via = "load") =>
          /\ err'.kind = "ReferenceException"
          /\ \E n \in 1..Len(err'.types) : err'.types[n] = Top.type
          /\ resolved' = resolved]_vars

\* the step is a call of by_id
ByIdStep == call'.op = "by_id" /\ budget' = budget - 1

\* C14: by_id raises when the type (its name stripped) has no collection;
\* it returns None, and does not raise, when the type has a collection and
\* the id is not stored in it; either way the store and the counters are
\* what they were before the call, so no collection is created.
C14_ByIdReadOnly ==
    [][ByIdStep =>
        LET t == GetTypeName(call'.name)
        IN  /\ t \notin DOMAIN objects => ~call'.out.ok /\ err'.kind = "KeyError"
            /\ (t \in DOMAIN objects /\ call'.id \notin DOMAIN objects[t])
                  => call'.out = [ok |-> TRUE, val |-> None] /\ err' = NoErr
            /\ objects' = objects
            /\ counter' = counter]_vars

\* by_id has returned None for an id that is not stored in a loaded type
C14_Witness ==
    /\ call.op = "by_id" /\ call.out = [ok |-> TRUE, val |-> None]
    /\ GetTypeName(call.name) \in DOMAIN objects
    /\ call.id \notin DOMAIN objects[GetTypeName(call.name)]

\* the attribute chains of the reference tokens compared
Chains == {<<>>, <<"name">>, <<"ref">>, <<"ref", "name">>}

\* by_id(name, ref_id), then getattr along the chain
ByIdWalk(name, ref_id, attrs) ==
    LET b == ById(name, ref_id)
    IN  IF b.ok THEN Chase(made, b.val, attrs) ELSE [ok |-> FALSE, val |-> None]

\* C15: for every object stored under an id of a collection, and every
\* attribute chain, the lookup of _resolve_reference for (type, id, chain)
\* and by_id(type, id) followed by the same attribute walk succeed together
\* and give the same value.
C15_ResolveAgreesWithById ==
    \A t \in DOMAIN objects :
        \A i \in DOMAIN objects[t] :
            \A attrs \in Chains :
                LET r == Lookup(objects, made, t, i, attrs)
                    w == ByIdWalk(t, i, attrs)
                IN  /\ r.ok <=> w.ok
                    /\ r.ok => r.val = w.val

\* C16: when an add with an explicit id finds the id occupied, the occupant
\* is afterwards stored under an id that was free before the add and is not
\* below the type's counter, the counter has become that id, and every other
\* object is stored where it was.
C16_RelocateToFreeSlot ==
    [][AddStep =>
        LET uid == Len(made')
            t == made'[uid].type
            x == made'[uid].refid
            m == Coll(t)
            c == counter[t]
        IN  x \in DOMAIN m =>
              /\ \E j \in DOMAIN objects'[t] :
                    /\ objects'[t][j] = m[x]
                    /\ j \notin DOMAIN m /\ j >= c
                    /\ counter'[t] = j
              /\ \A i \in DOMAIN m \ {x} :
                    i \in DOMAIN objects'[t] /\ objects'[t][i] = m[i]]_vars

\* C17: a type has its collection, which is what the reference resolver and
\* _load_type_definition test, whenever a _load_type call of the type is
\* about to resolve a reference of the definition it is loading.
C17_LoadedBeforeOwnReferences ==
    \A i \in 1..Len(stack) :
        (/\ stack[i].fn = "load" /\ stack[i].via = "load"
         /\ stack[i].pc = "walk" /\ stack[i].ep <= Len(stack[i].evs)
         /\ stack[i].evs[stack[i].ep].ev = "resolve")
        => stack[i].type \in DOMAIN objects

\* the step raises an exception inside at least one _load_type call
FailsInLoad ==
    /\ err' # err /\ err'.kind # ""
    /\ Catchers(stack) # <<>>

\* C18: an exception raised inside _load_type leaves every enclosing
\* _load_type call classified: a TypeHandlerException or ScenariousException
\* as the same class with its message untouched, a ReferenceException as a
\* ReferenceException whose message names the type being loaded, anything
\* else as a ScenariousException whose message names the type being loaded;
\* the exception reaches the caller (the build fails, no frame is left), and
\* the object under construction is neither recorded nor stored.
C18_Classified ==
    [][FailsInLoad =>
        LET type_name == Catchers(stack)[1]
            e == err'
        IN  /\ e.raised \in {"TypeHandlerException", "ScenariousException"}
                  => e.kind = e.raised /\ e.types = <<>>
            /\ e.raised = "ReferenceException"
                  => /\ e.kind = "ReferenceException"
                     /\ e.types = [n \in 1..Len(Catchers(stack)) |->
                                      Catchers(stack)[Len(Catchers(stack)) + 1 - n]]
            /\ e.raised \notin Categorized
                  => e.kind = "ScenariousException" /\ e.types = <<type_name>>
            /\ stack' = <<>>
            /\ status = "building" => status' = "failed"
            /\ made' = made
            /\ Coll(type_name) = IF type_name \in DOMAIN objects'
                                 THEN objects'[type_name] ELSE EmptyMap
            /\ counter' = counter]_vars

\* a malformed reference token in a type that was loaded lazily from another
\* type's load: the ReferenceException was wrapped by both _load_type calls
C18_Witness ==
    /\ status = "failed"
    /\ err.raised = "ReferenceException" /\ err.kind = "ReferenceException"
    /\ err.types = <<NA, NB>>

\* C19: the specification mapping the scenario was built from is, at every
\* moment of the build and afterwards, equal to what the caller passed:
\* every object definition keeps its keys and values, its id among them.
C19_SpecificationUntouched == raw = given

\* the collection of a type in the store as it was when the last call began
CollBefore(t) == IF t \in DOMAIN call.objs THEN call.objs[t] ELSE EmptyMap

\* the last call was an add, and it has ended in an exception
AddFailed == call.op = "add" /\ stack = <<>> /\ err.kind # ""

\* no _load_type of the type ran inside the last call
NoLoadInside(t) ==
    \A u \in (call.n + 1)..Len(made) : ~(made[u].type = t /\ made[u].via = "load")

\* C20: when an add call for a type has ended in an exception, and no load
\* of that type ran inside the call, the collection of the type (its objects
\* and their ids) and the counter of the type are what they were when the
\* call began.
C20_FailedAddAtomic ==
    (AddFailed /\ NoLoadInside(call.name)) =>
        /\ Coll(call.name) = CollBefore(call.name)
        /\ counter[call.name] = call.ctr[call.name]

\* an add with an explicit id that is occupied has failed in handler.create
C20_Witness ==
    /\ AddFailed /\ err.raised = "TypeHandlerException"
    /\ call.id \in DOMAIN Coll(call.name)

====
